---------------------------- MODULE Spec2Model ----------------------------
(***************************************************************************)
(* Gaze-based interaction as a cognitive POMDP                             *)
(* (03-Reinforcement-Learning/034_Gaze_based_Interaction,                  *)
(*  gaze_based_interaction.ipynb): the classes CognitivePOMDP, GazeTheory, *)
(* GazeTask and GazeModel.                                                 *)
(*                                                                         *)
(* Numbers.  The notebook computes with real (float64) numbers.  Here a    *)
(* real is an exact rational <<n, d>>, d > 0, in lowest terms; <<0, 0>> is *)
(* NaN, the result of 0/0.  A value the code obtains with a square root    *)
(* (a distance, a standard deviation) is the record [sqrt |-> q], the      *)
(* non-negative root of the rational q: squaring it gives q back, and two  *)
(* roots compare as their radicands do.  Rounding of float64 is not        *)
(* modelled.                                                               *)
(***************************************************************************)
EXTENDS Integers, Sequences, FiniteSets, TLC

(***************************************************************************)
(* Exact arithmetic of the Python/numpy operators + - * / < on reals.      *)
(***************************************************************************)
Abs(n) == IF n < 0 THEN -n ELSE n

RECURSIVE GCD(_, _)
GCD(a, b) == IF b = 0 THEN a ELSE GCD(b, a % b)

NaN == <<0, 0>>

IsNaN(x) == x[2] = 0

\* the rational n/d in lowest terms with a positive denominator
Rat(n, d) ==
    IF d = 0 THEN NaN
    ELSE LET g == GCD(Abs(n), Abs(d))
             s == IF d < 0 THEN -1 ELSE 1
         IN  <<s * (n \div g), s * (d \div g)>>

R(n) == <<n, 1>>

RNeg(x) == IF IsNaN(x) THEN NaN ELSE <<-x[1], x[2]>>

RAdd(x, y) ==
    IF IsNaN(x) \/ IsNaN(y) THEN NaN
    ELSE LET g == GCD(x[2], y[2])
         IN  Rat(x[1] * (y[2] \div g) + y[1] * (x[2] \div g), (x[2] \div g) * y[2])

RSub(x, y) == RAdd(x, RNeg(y))

\* factors are cancelled crosswise before multiplying
RMul(x, y) ==
    IF IsNaN(x) \/ IsNaN(y) THEN NaN
    ELSE LET g1 == GCD(Abs(x[1]), y[2])
             g2 == GCD(Abs(y[1]), x[2])
         IN  Rat((x[1] \div g1) * (y[1] \div g2), (x[2] \div g2) * (y[2] \div g1))

\* x / y; 0/0 is NaN.  A non-zero numerator over zero (numpy's inf) does not
\* occur: the only divisor of the code is sigma1**2 + sigma2**2, a sum of
\* squares both numerators are factors of.
RDiv(x, y) ==
    IF IsNaN(x) \/ IsNaN(y) \/ y[1] = 0 THEN NaN
    ELSE RMul(x, IF y[1] < 0 THEN <<-y[2], -y[1]>> ELSE <<y[2], y[1]>>)

\* a/b < c/d for b, d > 0, by the continued fractions of the two (no product
\* is formed, so no intermediate value outgrows the operands)
RECURSIVE FracLess(_, _, _, _)
FracLess(a, b, c, d) ==
    IF a \div b # c \div d THEN a \div b < c \div d
    ELSE IF c % d = 0 THEN FALSE
    ELSE IF a % b = 0 THEN TRUE
    ELSE FracLess(d, c % d, b, a % b)

\* x < y; every comparison with NaN is False
RLess(x, y) ==
    IF IsNaN(x) \/ IsNaN(y) THEN FALSE
    ELSE FracLess(x[1], x[2], y[1], y[2])

RLeq(x, y) == (~IsNaN(x)) /\ (~IsNaN(y)) /\ ~RLess(y, x)

\* np.sqrt(q), x**2 of a root, and weight * root for a weight >= 0
Sqrt(q) == [sqrt |-> q]

Square(r) == r.sqrt

Scale(w, r) == Sqrt(RMul(RMul(w, w), r.sqrt))

\* root < c for a rational c >= 0
RootLess(r, c) == RLess(r.sqrt, RMul(c, c))

\* root r1 <= root r2
RootLeq(r1, r2) == RLeq(r1.sqrt, r2.sqrt)

\* np.clip(x, lo, hi) on one coordinate
clip(x, lo, hi) == IF RLess(x, lo) THEN lo ELSE IF RLess(hi, x) THEN hi ELSE x

\* a 2-vector np.array([x, y])
Pt(x, y) == <<R(x), R(y)>>

VAdd(a, b) == <<RAdd(a[1], b[1]), RAdd(a[2], b[2])>>

VScale(w, a) == <<RMul(w, a[1]), RMul(w, a[2])>>

VClip(a, lo, hi) == <<clip(a[1], lo, hi), clip(a[2], lo, hi)>>

(***************************************************************************)
(* gazetools.get_distance: the Euclidean distance of two points.           *)
(***************************************************************************)
get_distance(p, q) ==
    LET dx == RSub(p[1], q[1])
        dy == RSub(p[2], q[2])
    IN  Sqrt(RAdd(RMul(dx, dx), RMul(dy, dy)))

(***************************************************************************)
(* Bounds of the model and the draws of the random source.                 *)
(***************************************************************************)
\* the step cap of an episode (GazeModel.max_steps; the notebook sets 500)
max_steps == 2

\* np.random.normal(0, std) for a root std: exactly 0 when std = 0, else any
\* real; `values` are the reals drawn.  (No std the code passes is NaN: the
\* stds come from the actions, the fixations and the target, never from the
\* belief.)
np_random_normal(std, values) ==
    IF std.sqrt = R(0) THEN {R(0)} ELSE values

\* np.random.normal(0, std, shape) for the shape (2,) of a point
np_random_normal2(std, values) ==
    IF std.sqrt = R(0) THEN {<<R(0), R(0)>>} ELSE values

\* the draws of a target coordinate before clipping
TargetDraws == {R(-2), R(0), R(2)}

\* the draws of the oculomotor noise and of the stimulus noise
MotorNoiseDraws == {Pt(0, 0), Pt(1, -1)}

StimulusNoiseDraws == {Pt(0, 0), Pt(-1, 1)}

\* the actions a caller passes to step, one outside the declared box
ActionSet == {Pt(-1, -1), Pt(0, 0), Pt(1, 1), Pt(2, -2)}


(***************************************************************************)
(* class GazeTask                                                          *)
(***************************************************************************)
\* GazeTask.__init__: 0.15 and 0.3
target_width == <<3, 20>>

target_loc_std == <<3, 10>>

\* reset_external_env with the draws left unclipped
reset_external_env_unclipped(values) ==
    LET draws == np_random_normal(Sqrt(RMul(target_loc_std, target_loc_std)), values)
        _get_new_target == {<<x, y>> : x \in draws, y \in draws}
        fx == Pt(-1, -1)
    IN  {[fixation |-> fx, target |-> tg, width |-> target_width] : tg \in _get_new_target}

\* GazeTask.reset_external_env: the external states it may install, one per
\* draw of the two target coordinates; `values` are the reals drawn
reset_external_env(values) ==
    LET draws == np_random_normal(Sqrt(RMul(target_loc_std, target_loc_std)), values)
        _get_new_target == {<<clip(x, R(-1), R(1)), clip(y, R(-1), R(1))>> : x \in draws, y \in draws}
        fx == Pt(-1, -1)
    IN  {[fixation |-> fx, target |-> tg, width |-> target_width] : tg \in _get_new_target}

\* external_env testing the goal on the fixation it was called with, before
\* the assignment
external_env_stale_fixation(external_state, action) ==
    LET es == [external_state EXCEPT !.fixation = action]
        distance == get_distance(external_state.fixation, external_state.target)
        done == RootLess(distance, RDiv(es.width, R(2)))
    IN  [external_state |-> es, done |-> done]

\* external_env writing the action into the target as well
external_env_moves_target(external_state, action) ==
    LET es == [external_state EXCEPT !.fixation = action, !.target = action]
        distance == get_distance(es.fixation, es.target)
        done == RootLess(distance, RDiv(es.width, R(2)))
    IN  [external_state |-> es, done |-> done]

\* external_env with the goal test against 0 instead of width/2: a fixation
\* on the target itself does not end the episode
external_env_zero_width(external_state, action) ==
    LET es == [external_state EXCEPT !.fixation = action]
        distance == get_distance(es.fixation, es.target)
        done == RootLess(distance, R(0))
    IN  [external_state |-> es, done |-> done]

\* GazeTask.external_env: the state with the fixation moved, and done
external_env(external_state, action) ==
    LET es == [external_state EXCEPT !.fixation = action]
        distance == get_distance(es.fixation, es.target)
        done == RootLess(distance, RDiv(es.width, R(2)))
    IN  [external_state |-> es, done |-> done]

(***************************************************************************)
(* class GazeTheory(CognitivePOMDP)                                        *)
(***************************************************************************)
\* GazeTheory.__init__: 0.01, 0.09 and -1
default_oculamotor_noise_weight == <<1, 100>>

default_stimulus_noise_weight == <<9, 100>>

step_cost == -1

\* the prior strength, target_std of reset_internal_env: 0.1
prior_std == Sqrt(<<1, 100>>)

\* GazeTheory._get_obs
_get_obs(internal_state) ==
    <<internal_state.target[1], internal_state.target[2], internal_state.target_std>>

\* reset_internal_env starting the belief at the true target
reset_internal_env_sees_target(external_state) ==
    [fixation   |-> Pt(-1, -1),
     target     |-> external_state.target,
     width      |-> external_state.width,
     action     |-> Pt(-1, -1),
     target_std |-> prior_std]

\* GazeTheory.reset_internal_env: the new internal state (its return value is
\* _get_obs of it)
reset_internal_env(external_state) ==
    [fixation   |-> Pt(-1, -1),
     target     |-> Pt(0, 0),
     width      |-> external_state.width,
     action     |-> Pt(-1, -1),
     target_std |-> prior_std]

\* _update_state_with_action keeping track of the gaze: the fixation becomes
\* the action of the step before
_update_state_with_action_tracks_gaze(internal_state, action) ==
    [internal_state EXCEPT !.action = action, !.fixation = internal_state.action]

\* GazeTheory._update_state_with_action
_update_state_with_action(internal_state, action) ==
    [internal_state EXCEPT !.action = action]

\* _get_response with the noise not weighted: its std is the move distance
_get_response_unweighted_noise(oculamotor_noise_weight, internal_state) ==
    LET move_distance == get_distance(internal_state.fixation, internal_state.action)
        std == move_distance
    IN  {VClip(VAdd(internal_state.action, ocularmotor_noise), R(-1), R(1)) :
            ocularmotor_noise \in np_random_normal2(std, MotorNoiseDraws)}

\* _get_response without the adjustment of a response out of range
_get_response_unclipped(oculamotor_noise_weight, internal_state) ==
    LET move_distance == get_distance(internal_state.fixation, internal_state.action)
        std == Scale(oculamotor_noise_weight, move_distance)
    IN  {VAdd(internal_state.action, ocularmotor_noise) :
            ocularmotor_noise \in np_random_normal2(std, MotorNoiseDraws)}

\* GazeTheory._get_response: the responses it may return, one per noise draw
_get_response(oculamotor_noise_weight, internal_state) ==
    LET move_distance == get_distance(internal_state.fixation, internal_state.action)
        std == Scale(oculamotor_noise_weight, move_distance)
    IN  {VClip(VAdd(internal_state.action, ocularmotor_noise), R(-1), R(1)) :
            ocularmotor_noise \in np_random_normal2(std, MotorNoiseDraws)}

\* GazeTheory._get_stimulus: the (stm, stm_std) pairs it may return, one per
\* noise draw
_get_stimulus(stimulus_noise_weight, external_state) ==
    LET eccentricity == get_distance(external_state.target, external_state.fixation)
        stm_std == Scale(stimulus_noise_weight, eccentricity)
    IN  {[stm |-> VAdd(external_state.target, stimulus_noise), stm_std |-> stm_std] :
            stimulus_noise \in np_random_normal2(stm_std, StimulusNoiseDraws)}

\* bayes_update weighting both means with w1
bayes_update_one_weight(stimulus, stimulus_std, belief, belief_std) ==
    LET z1 == stimulus
        sigma1 == stimulus_std
        z2 == belief
        sigma2 == belief_std
        w1 == RDiv(Square(sigma2), RAdd(Square(sigma1), Square(sigma2)))
        posterior == VAdd(VScale(w1, z1), VScale(w1, z2))
        posterior_std == Sqrt(RDiv(RMul(Square(sigma1), Square(sigma2)),
                                   RAdd(Square(sigma1), Square(sigma2))))
    IN  [posterior |-> posterior, posterior_std |-> posterior_std]

\* GazeTheory.bayes_update
bayes_update(stimulus, stimulus_std, belief, belief_std) ==
    LET z1 == stimulus
        sigma1 == stimulus_std
        z2 == belief
        sigma2 == belief_std
        w1 == RDiv(Square(sigma2), RAdd(Square(sigma1), Square(sigma2)))
        w2 == RDiv(Square(sigma1), RAdd(Square(sigma1), Square(sigma2)))
        posterior == VAdd(VScale(w1, z1), VScale(w2, z2))
        posterior_std == Sqrt(RDiv(RMul(Square(sigma1), Square(sigma2)),
                                   RAdd(Square(sigma1), Square(sigma2))))
    IN  [posterior |-> posterior, posterior_std |-> posterior_std]

\* GazeTheory._update_state_with_stimulus
_update_state_with_stimulus(internal_state, stimulus, stimulus_std) ==
    LET p == bayes_update(stimulus, stimulus_std,
                          internal_state.target, internal_state.target_std)
    IN  [internal_state EXCEPT !.target = p.posterior, !.target_std = p.posterior_std]

\* GazeTheory._get_reward: the reward is 0 or -distance, held as the root it
\* is the negative of (so reward == 0 is reward.neg = Sqrt(R(0)))
_get_reward(internal_state) ==
    LET distance == get_distance(internal_state.fixation, internal_state.target)
    IN  IF RootLess(distance, RDiv(internal_state.width, R(2)))
        THEN [neg |-> Sqrt(R(0))]
        ELSE [neg |-> distance]

(***************************************************************************)
(* class CognitivePOMDP                                                    *)
(***************************************************************************)
\* the cycle with perception before the task update: the stimulus is taken
\* from the external state the call started with
CognitivePOMDP_step_perceives_first(oculamotor_noise_weight, stimulus_noise_weight, internal_state, external_state, action) ==
    LET is1 == _update_state_with_action(internal_state, action)
    IN  UNION {
          LET env == external_env(external_state, response)
          IN  {LET is2 == _update_state_with_stimulus(is1, s.stm, s.stm_std)
               IN  [internal_state |-> is2,
                    external_state |-> env.external_state,
                    obs            |-> _get_obs(is2),
                    reward         |-> _get_reward(is2),
                    done           |-> env.done,
                    response       |-> response,
                    stimulus       |-> s.stm,
                    stimulus_std   |-> s.stm_std,
                    belief_std     |-> is1.target_std] :
               s \in _get_stimulus(stimulus_noise_weight, external_state)} :
          response \in _get_response(oculamotor_noise_weight, is1)}

\* CognitivePOMDP.step(ext, action): the outcomes of one decision cycle, one
\* per pair of noise draws.  An outcome holds the two states as the call
\* leaves them, what the call returns (obs, reward, done), its locals
\* response, stimulus and stimulus_std, and the target_std the fusion started
\* from (belief_std).
CognitivePOMDP_step(oculamotor_noise_weight, stimulus_noise_weight, internal_state, external_state, action) ==
    LET is1 == _update_state_with_action(internal_state, action)
    IN  UNION {
          LET env == external_env(external_state, response)
          IN  {LET is2 == _update_state_with_stimulus(is1, s.stm, s.stm_std)
               IN  [internal_state |-> is2,
                    external_state |-> env.external_state,
                    obs            |-> _get_obs(is2),
                    reward         |-> _get_reward(is2),
                    done           |-> env.done,
                    response       |-> response,
                    stimulus       |-> s.stm,
                    stimulus_std   |-> s.stm_std,
                    belief_std     |-> is1.target_std] :
               s \in _get_stimulus(stimulus_noise_weight, env.external_state)} :
          response \in _get_response(oculamotor_noise_weight, is1)}

(***************************************************************************)
(* class GazeModel(gym.Env)                                                *)
(***************************************************************************)
\* GazeModel.get_info
get_info(n_step, external_state) ==
    [step         |-> n_step,
     target_width |-> target_width,
     target_x     |-> external_state.target[1],
     target_y     |-> external_state.target[2],
     fixate_x     |-> external_state.fixation[1],
     fixate_y     |-> external_state.fixation[2]]

\* the counter left as it is
increment_forgotten(n_step) == n_step

\* self.n_step+=1
increment(n_step) == n_step + 1

\* the cap tested one step late
too_long_late(n_step) == n_step > max_steps + 1

\* the cap tested for equality: only the first step past it is cut
too_long_once(n_step) == n_step = max_steps + 1

\* the cap tested one step early
too_long_early(n_step) == n_step >= max_steps

\* the test of "give up if been looking for too long"
too_long(n_step) == n_step > max_steps

\* GazeModel.reset: the outcomes, one per target draw
GazeModel_reset(values) ==
    {[n_step         |-> 0,
      external_state |-> es,
      internal_state |-> reset_internal_env(es),
      obs            |-> _get_obs(reset_internal_env(es))] :
       es \in reset_external_env(values)}

\* step with the info taken from the external state the call started with,
\* before the cycle
GazeModel_step_info_first(oculamotor_noise_weight, stimulus_noise_weight, n_step, internal_state, external_state, action) ==
    {LET n == increment(n_step)
         done == IF too_long(n) THEN TRUE ELSE c.done
     IN  [n_step         |-> n,
          internal_state |-> c.internal_state,
          external_state |-> c.external_state,
          obs            |-> c.obs,
          reward         |-> c.reward,
          done           |-> done,
          info           |-> get_info(n, external_state),
          cycle          |-> [response     |-> c.response,
                              done         |-> c.done,
                              stimulus     |-> c.stimulus,
                              stimulus_std |-> c.stimulus_std,
                              belief_std   |-> c.belief_std]] :
       c \in CognitivePOMDP_step(oculamotor_noise_weight, stimulus_noise_weight,
                                 internal_state, external_state, action)}

\* GazeModel.step(action): the outcomes, one per outcome of the cycle
GazeModel_step(oculamotor_noise_weight, stimulus_noise_weight, n_step, internal_state, external_state, action) ==
    {LET n == increment(n_step)
         done == IF too_long(n) THEN TRUE ELSE c.done
     IN  [n_step         |-> n,
          internal_state |-> c.internal_state,
          external_state |-> c.external_state,
          obs            |-> c.obs,
          reward         |-> c.reward,
          done           |-> done,
          info           |-> get_info(n, c.external_state),
          cycle          |-> [response     |-> c.response,
                              done         |-> c.done,
                              stimulus     |-> c.stimulus,
                              stimulus_std |-> c.stimulus_std,
                              belief_std   |-> c.belief_std]] :
       c \in CognitivePOMDP_step(oculamotor_noise_weight, stimulus_noise_weight,
                                 internal_state, external_state, action)}

(***************************************************************************)
(* numpy's global generator, which np.random.normal draws from: a position *)
(* in a stream of RandomPeriod numbers, or -1 when it is left abstract.     *)
(***************************************************************************)
RandomPeriod == 3

\* the generator after k more numbers
advance(position, k) == (position + k) % RandomPeriod

\* the draws the generator yields at a position: a target coordinate, a motor
\* noise vector, a stimulus noise vector (values of the draw sets above)
TargetDrawAt(position) ==
    IF position % 3 = 0 THEN R(0) ELSE IF position % 3 = 1 THEN R(2) ELSE R(-2)

MotorNoiseAt(position) == IF position % 2 = 0 THEN Pt(1, -1) ELSE Pt(0, 0)

StimulusNoiseAt(position) == IF position % 2 = 0 THEN Pt(-1, 1) ELSE Pt(0, 0)

\* the target coordinates a reset may draw: with the generator at a position,
\* those of the next two numbers; with the generator left abstract, any of
\* TargetDraws
TargetValues(generator) ==
    IF generator >= 0
    THEN {TargetDrawAt(generator), TargetDrawAt(advance(generator, 1))}
    ELSE TargetDraws

(***************************************************************************)
(* The state: one GazeModel instance and what its last call returned.      *)
(***************************************************************************)
VARIABLES
    oculamotor_noise_weight,  \* GT.oculamotor_noise_weight
    stimulus_noise_weight,    \* GT.stimulus_noise_weight
    is_reset,                 \* reset has run: n_step and the two states exist
    n_step,                   \* GazeModel.n_step
    internal_state,           \* GT.internal_state
    external_state,           \* TX.external_state
    ret,                      \* the last call, what it returned and its locals
    history,                  \* of the episode: see NewEpisode
    other,                    \* a second GazeModel instance of the process
    np_random                 \* the state of numpy's global generator

vars == <<oculamotor_noise_weight, stimulus_noise_weight, is_reset, n_step,
          internal_state, external_state, ret, history, other, np_random>>

Unset == [unset |-> TRUE]

\* the noise weights an instance runs with: those of GazeTheory.__init__, the
\* oculomotor weight alone set to zero, or both set to zero
WeightConfigs ==
    {<<default_oculamotor_noise_weight, default_stimulus_noise_weight>>,
     <<R(0), default_stimulus_noise_weight>>,
     <<R(0), R(0)>>}

\* what is remembered of the episode so far, for the properties only: the
\* external state reset installed, the number of step calls, whether a step
\* before the last call returned done=True, whether every action was the true
\* target, whether a step returned a reward of 0
NewEpisode(es) ==
    [at_reset |-> es, calls |-> 0, was_done |-> FALSE, on_target |-> TRUE,
     zero_reward |-> FALSE]

\* model = GazeModel(): n_step, internal_state and external_state are not yet
\* attributes (n_step is given the value 0 to have one).  There is no second
\* instance, and the generator is left abstract: a draw is any value of the
\* draw sets
Init ==
    /\ \E w \in WeightConfigs :
          /\ oculamotor_noise_weight = w[1]
          /\ stimulus_noise_weight = w[2]
    /\ is_reset = FALSE
    /\ n_step = 0
    /\ internal_state = Unset
    /\ external_state = Unset
    /\ ret = [call |-> "init"]
    /\ history = NewEpisode(Unset)
    /\ other = Unset
    /\ np_random = -1

\* model.reset()
Reset ==
    \E r \in GazeModel_reset(TargetValues(np_random)) :
       /\ is_reset' = TRUE
       /\ n_step' = r.n_step
       /\ internal_state' = r.internal_state
       /\ external_state' = r.external_state
       /\ ret' = [call |-> "reset", obs |-> r.obs,
                  replaced |-> [is_reset |-> is_reset, n_step |-> n_step]]
       /\ history' = NewEpisode(r.external_state)
       /\ UNCHANGED <<oculamotor_noise_weight, stimulus_noise_weight, other, np_random>>

\* model.step(action); before the first reset the call raises AttributeError
\* on its first statement and changes nothing
Step ==
    /\ is_reset
    /\ n_step < max_steps + 2
    /\ \E action \in ActionSet :
         \E r \in GazeModel_step(oculamotor_noise_weight, stimulus_noise_weight,
                                 n_step, internal_state, external_state, action) :
            /\ n_step' = r.n_step
            /\ internal_state' = r.internal_state
            /\ external_state' = r.external_state
            /\ ret' = [call |-> "step", action |-> action, obs |-> r.obs,
                       reward |-> r.reward, done |-> r.done, info |-> r.info,
                       cycle |-> r.cycle]
            /\ history' = [at_reset    |-> history.at_reset,
                           calls       |-> history.calls + 1,
                           was_done    |-> history.was_done
                                             \/ (ret.call = "step" /\ ret.done),
                           on_target   |-> history.on_target
                                             /\ action = external_state.target,
                           zero_reward |-> history.zero_reward
                                             \/ r.reward = [neg |-> Sqrt(R(0))]]
            /\ UNCHANGED <<oculamotor_noise_weight, stimulus_noise_weight, is_reset,
                           other, np_random>>

Next == Reset \/ Step

Spec == Init /\ [][Next]_vars

(***************************************************************************)
(* The test cell "step until done": model = GazeModel(); model.reset();    *)
(* while not done: model.step(model.action_space.sample()).                *)
(***************************************************************************)
LoopDone == ret.call = "step" /\ ret.done

LoopReset == (~is_reset) /\ Reset

LoopStep == is_reset /\ (~LoopDone) /\ Step

LoopNext == LoopReset \/ LoopStep

LoopSpec == Init /\ [][LoopNext]_vars

(***************************************************************************)
(* bayes_update on its own: model.GT.bayes_update(stimulus, stimulus_std,  *)
(* belief, belief_std) for means and strictly positive stds of the sets    *)
(* below.  The method reads and writes no attribute.                       *)
(***************************************************************************)
FuseMeans == {Pt(0, 0), Pt(1, -1), <<Rat(1, 2), Rat(-1, 3)>>, <<Rat(-3, 10), Rat(2, 1)>>}

FuseStds == {Sqrt(Rat(1, 100)), Sqrt(Rat(81, 2500)), Sqrt(Rat(1, 4)), Sqrt(R(1))}

FuseInit ==
    /\ oculamotor_noise_weight = default_oculamotor_noise_weight
    /\ stimulus_noise_weight = default_stimulus_noise_weight
    /\ is_reset = FALSE
    /\ n_step = 0
    /\ internal_state = Unset
    /\ external_state = Unset
    /\ \E z1 \in FuseMeans, sigma1 \in FuseStds, z2 \in FuseMeans, sigma2 \in FuseStds :
          ret = [call |-> "args", stimulus |-> z1, stimulus_std |-> sigma1,
                 belief |-> z2, belief_std |-> sigma2]
    /\ history = NewEpisode(Unset)
    /\ other = Unset
    /\ np_random = -1

Fuse ==
    /\ ret.call = "args"
    /\ LET p == bayes_update(ret.stimulus, ret.stimulus_std, ret.belief, ret.belief_std)
       IN  ret' = [call |-> "bayes_update",
                   stimulus |-> ret.stimulus, stimulus_std |-> ret.stimulus_std,
                   belief |-> ret.belief, belief_std |-> ret.belief_std,
                   posterior |-> p.posterior, posterior_std |-> p.posterior_std]
    /\ UNCHANGED <<oculamotor_noise_weight, stimulus_noise_weight, is_reset, n_step,
                   internal_state, external_state, history, other, np_random>>

FuseNext == Fuse

FuseSpec == FuseInit /\ [][FuseNext]_vars

(***************************************************************************)
(* Two instances in one process: a = GazeModel(); b = GazeModel(), with    *)
(* reset and step calls on the two in any order.  Each instance has its    *)
(* own GT and TX (GazeModel.__init__), the first held in the variables     *)
(* is_reset .. external_state and the second in the record `other`.        *)
(* np.random.normal is numpy's module-level function: every call of it, by *)
(* either instance, takes its numbers from the one global generator of the *)
(* process and advances it; a draw is a function of its position.          *)
(***************************************************************************)
\* the actions passed to step
TwoActions == {Pt(0, 0), Pt(1, 1)}

\* GazeModel.reset with the generator at `position`: x_target, then y_target
SeededReset(position) ==
    {r \in GazeModel_reset(TargetValues(position)) :
        r.external_state.target =
            <<clip(TargetDrawAt(position), R(-1), R(1)),
              clip(TargetDrawAt(advance(position, 1)), R(-1), R(1))>>}

\* GazeModel.step(action) of the instance inst with the generator at
\* `position`: the two numbers of the motor noise, then the two of the
\* stimulus noise
SeededStep(inst, position, action) ==
    LET motor_std == Scale(oculamotor_noise_weight,
                           get_distance(inst.internal_state.fixation, action))
    IN  {r \in GazeModel_step(oculamotor_noise_weight, stimulus_noise_weight, inst.n_step,
                              inst.internal_state, inst.external_state, action) :
           /\ r.cycle.response \in
                 {VClip(VAdd(action, noise), R(-1), R(1)) :
                    noise \in np_random_normal2(motor_std, {MotorNoiseAt(position)})}
           /\ r.cycle.stimulus \in
                 {VAdd(inst.external_state.target, noise) :
                    noise \in np_random_normal2(r.cycle.stimulus_std,
                                                {StimulusNoiseAt(advance(position, 2))})}}

NoInstance == [is_reset |-> FALSE, n_step |-> 0,
               internal_state |-> Unset, external_state |-> Unset]

\* the instance i as a record
Inst(i) ==
    IF i = 1 THEN [is_reset |-> is_reset, n_step |-> n_step,
                   internal_state |-> internal_state,
                   external_state |-> external_state]
    ELSE other

TwoInit ==
    /\ oculamotor_noise_weight = default_oculamotor_noise_weight
    /\ stimulus_noise_weight = default_stimulus_noise_weight
    /\ is_reset = FALSE
    /\ n_step = 0
    /\ internal_state = Unset
    /\ external_state = Unset
    /\ other = NoInstance
    /\ np_random \in 0 .. RandomPeriod - 1
    /\ ret = [call |-> "init"]
    /\ history = NewEpisode(Unset)

\* the call left the instance i in the state r
TwoAssign(i, r) ==
    IF i = 1
    THEN /\ is_reset' = TRUE
         /\ n_step' = r.n_step
         /\ internal_state' = r.internal_state
         /\ external_state' = r.external_state
         /\ other' = other
    ELSE /\ other' = [is_reset |-> TRUE, n_step |-> r.n_step,
                      internal_state |-> r.internal_state,
                      external_state |-> r.external_state]
         /\ UNCHANGED <<is_reset, n_step, internal_state, external_state>>

\* a.reset() or b.reset()
TwoReset(i) ==
    \E r \in SeededReset(np_random) :
       /\ TwoAssign(i, r)
       /\ np_random' = advance(np_random, 2)
       /\ ret' = [call |-> "reset", instance |-> i, obs |-> r.obs]
       /\ UNCHANGED <<oculamotor_noise_weight, stimulus_noise_weight, history>>

\* a.step(action) or b.step(action)
TwoStep(i) ==
    /\ Inst(i).is_reset
    /\ Inst(i).n_step < max_steps
    /\ \E action \in TwoActions :
         \E r \in SeededStep(Inst(i), np_random, action) :
            /\ TwoAssign(i, r)
            /\ np_random' = advance(np_random, 4)
            /\ ret' = [call |-> "step", instance |-> i, action |-> action,
                       obs |-> r.obs, reward |-> r.reward, done |-> r.done,
                       info |-> r.info]
            /\ UNCHANGED <<oculamotor_noise_weight, stimulus_noise_weight, history>>

TwoNext == TwoReset(1) \/ TwoReset(2) \/ TwoStep(1) \/ TwoStep(2)

TwoSpec == TwoInit /\ [][TwoNext]_vars

(***************************************************************************)
(* Properties                                                              *)
(***************************************************************************)
AfterStep == ret.call = "step"

AfterReset == ret.call = "reset"

\* the goal condition of the task on the external state as it stands
GoalReached ==
    RootLess(get_distance(external_state.fixation, external_state.target),
             RDiv(external_state.width, R(2)))

\* C1: a step that raises n_step to max_steps + 1 returns done=True,
\* whatever the distance between fixation and target, so the loop that steps
\* until done makes at most max_steps + 1 calls: it never runs on with
\* n_step beyond max_steps
C1_DoneByStepCap ==
    /\ (AfterStep /\ n_step >= max_steps + 1) => ret.done
    /\ (is_reset /\ ~LoopDone) => n_step <= max_steps

\* the (max_steps+1)-th step of an episode in which the goal was never
\* reached returned done=True
C1_Witness ==
    /\ AfterStep
    /\ n_step = max_steps + 1
    /\ ~history.was_done
    /\ ~GoalReached
    /\ ret.done

\* C2: the done flag of external_env is True iff the distance of fixation and
\* target, on the state with the fixation already set to the response, is
\* below width/2, and CognitivePOMDP.step returns that flag
C2_DoneIffWithinHalfWidth ==
    AfterStep =>
        /\ external_state.fixation = ret.cycle.response
        /\ ret.cycle.done = GoalReached

\* a first step that moved the fixation from the corner onto a target
\* elsewhere and returned done=True
C2_Witness ==
    /\ AfterStep
    /\ n_step = 1
    /\ history.at_reset.target # Pt(-1, -1)
    /\ ret.cycle.done
    /\ ret.done

\* C3: between two resets the steps leave target and width as reset installed
\* them, and the fixation is the one reset installed until the first step and
\* from then on the response the last step handed to external_env
C3_TargetFixedFixationByTask ==
    is_reset =>
        /\ external_state.target = history.at_reset.target
        /\ external_state.width = history.at_reset.width
        /\ external_state.fixation =
              IF n_step = 0 THEN history.at_reset.fixation ELSE ret.cycle.response

\* two steps into an episode, the fixation moved away from the target's place
C3_Witness ==
    /\ is_reset
    /\ n_step = 2
    /\ external_state.fixation # history.at_reset.fixation
    /\ external_state.fixation # external_state.target
    /\ internal_state.target # Pt(0, 0)

BothWeightsZero == oculamotor_noise_weight = R(0) /\ stimulus_noise_weight = R(0)

\* C4: within an episode no step increases the belief uncertainty (the
\* target_std a step leaves is <= the target_std it started from), and every
\* reset sets it back to 0.1
C4_StdNeverIncreases ==
    /\ AfterStep => RootLeq(internal_state.target_std, ret.cycle.belief_std)
    /\ AfterReset => internal_state.target_std = Sqrt(<<1, 100>>)

\* C5: with both noise weights zero and every action of the episode the true
\* target, some step has returned a reward of 0 by the time the step cap
\* ends the episode
C5_ZeroNoiseReachesZeroReward ==
    (AfterStep /\ BothWeightsZero /\ history.on_target /\ n_step >= max_steps + 1)
        => history.zero_reward

\* C6 as claimed: once a step has returned done=True, every later step of the
\* episode returns done=True
C6_DoneIsAbsorbing == (AfterStep /\ history.was_done) => ret.done

\* C6 as amended: a step after a step cut by the cap returns done=True, and a
\* step after a done=True that is still within the cap returns done=True
\* exactly if its own response is within width/2 of the target
C6_DoneAfterDone ==
    (AfterStep /\ history.was_done) =>
        /\ (n_step >= max_steps + 2) => ret.done
        /\ (n_step <= max_steps) => (ret.done = GoalReached)

\* a step issued after the cap had already cut the episode, off the target,
\* returned done=True
C6_Witness ==
    /\ AfterStep
    /\ history.was_done
    /\ n_step = max_steps + 2
    /\ ~GoalReached
    /\ ret.done

\* C7: the eccentricity that scales the stimulus noise of a step is the
\* distance of the target and the fixation as external_env left it, the
\* response of this step
C7_EccentricityFromNewFixation ==
    AfterStep =>
        ret.cycle.stimulus_std =
            Scale(stimulus_noise_weight,
                  get_distance(external_state.target, ret.cycle.response))

\* a first step with a positive stimulus weight whose response is at another
\* distance of the target than the corner the fixation started in
C7_Witness ==
    /\ AfterStep
    /\ n_step = 1
    /\ stimulus_noise_weight # R(0)
    /\ get_distance(external_state.target, ret.cycle.response)
          # get_distance(external_state.target, history.at_reset.fixation)

\* C8: after a reset n_step is the number of step calls since the last reset,
\* and the info of a step reports that number, the step included
C8_StepCounter ==
    is_reset =>
        /\ n_step = history.calls
        /\ AfterStep => ret.info.step = history.calls
        /\ AfterReset => n_step = 0

\* the third step of an episode
C8_Witness ==
    /\ AfterStep
    /\ history.calls = 3
    /\ ret.info.step = 3

\* C9: after every reset the internal state is the prior, the observation is
\* (0, 0, 0.1), internal fixation and action are (-1,-1), the internal width
\* is the task's width and n_step is 0
C9_ResetRestoresPrior ==
    AfterReset =>
        /\ ret.obs = <<R(0), R(0), Sqrt(<<1, 100>>)>>
        /\ internal_state = [fixation   |-> Pt(-1, -1),
                             target     |-> Pt(0, 0),
                             target_std |-> Sqrt(<<1, 100>>),
                             width      |-> external_state.width,
                             action     |-> Pt(-1, -1)]
        /\ internal_state.width = <<3, 20>>
        /\ n_step = 0
        /\ history.calls = 0

\* a reset that replaced an episode of three steps
C9_Witness ==
    /\ AfterReset
    /\ ret.replaced.is_reset
    /\ ret.replaced.n_step = 3

\* C10: after every reset_external_env both target coordinates are within
\* [-1, 1], the external fixation is (-1,-1) and the width is target_width
C10_ResetExternalState ==
    AfterReset =>
        /\ RLeq(R(-1), external_state.target[1]) /\ RLeq(external_state.target[1], R(1))
        /\ RLeq(R(-1), external_state.target[2]) /\ RLeq(external_state.target[2], R(1))
        /\ external_state.fixation = Pt(-1, -1)
        /\ external_state.width = <<3, 20>>

\* a reset whose target draws were clipped on both sides
C10_Witness ==
    /\ AfterReset
    /\ external_state.target = Pt(-1, 1)

\* both coordinates of the point p are within [-1, 1]
InBox(p) ==
    /\ RLeq(R(-1), p[1]) /\ RLeq(p[1], R(1))
    /\ RLeq(R(-1), p[2]) /\ RLeq(p[2], R(1))

\* the point p is within width/2 of the target of the external state
WithinHalfWidth(p) ==
    RootLess(get_distance(p, external_state.target), RDiv(external_state.width, R(2)))

\* C11: with the oculomotor noise weight zero, a step with an action inside
\* [-1,1]^2 leaves the external fixation exactly at the action and returns
\* done=True whenever the action is within width/2 of the target; so a first
\* step with the action equal to the target returns done=True
C11_ZeroMotorNoiseHitsAction ==
    (AfterStep /\ oculamotor_noise_weight = R(0) /\ InBox(ret.action)) =>
        /\ external_state.fixation = ret.action
        /\ WithinHalfWidth(ret.action) => (ret.cycle.done /\ ret.done)
        /\ (n_step = 1 /\ ret.action = external_state.target) => ret.done

\* a first step from the corner with the action equal to a target elsewhere,
\* under zero oculomotor noise and a positive stimulus noise weight
C11_Witness ==
    /\ AfterStep
    /\ oculamotor_noise_weight = R(0)
    /\ stimulus_noise_weight # R(0)
    /\ n_step = 1
    /\ ret.action = external_state.target
    /\ ret.action # Pt(-1, -1)
    /\ external_state.fixation = ret.action
    /\ ret.done

\* C12: for means and strictly positive stds, bayes_update returns the same
\* posterior mean and posterior std when the (stimulus, stimulus_std) pair and
\* the (belief, belief_std) pair are swapped, and the posterior std is
\* strictly smaller than each of the two stds passed
C12_FuseCommutesAndSharpens ==
    ret.call = "bayes_update" =>
        LET swapped == bayes_update(ret.belief, ret.belief_std,
                                    ret.stimulus, ret.stimulus_std)
        IN  /\ ret.posterior = swapped.posterior
            /\ ret.posterior_std = swapped.posterior_std
            /\ RLess(ret.posterior_std.sqrt, ret.stimulus_std.sqrt)
            /\ RLess(ret.posterior_std.sqrt, ret.belief_std.sqrt)

\* a fusion of two different means with two different stds, the stimulus the
\* less certain of the two, whose posterior is neither of the means
C12_Witness ==
    /\ ret.call = "bayes_update"
    /\ ret.stimulus # ret.belief
    /\ RLess(ret.belief_std.sqrt, ret.stimulus_std.sqrt)
    /\ ret.posterior # ret.stimulus
    /\ ret.posterior # ret.belief
    /\ RLess(ret.posterior_std.sqrt, ret.belief_std.sqrt)

\* C13: every observation returned by reset or step lies in the declared
\* observation domain: both components of the belief mean are within [-1, 1]
\* and the uncertainty component is a number >= 0
C13_ObsInDeclaredDomain ==
    (AfterReset \/ AfterStep) =>
        /\ InBox(<<ret.obs[1], ret.obs[2]>>)
        /\ RLeq(R(0), ret.obs[3].sqrt)

\* C14: the info of a step reports n_step, the configured width and the
\* target and fixation of the external state as the step's task update left
\* them; building it changes nothing (the counter is the number of steps, the
\* external state is the one the cycle left, the internal state holds the
\* action), and obs, reward and done are those of the cycle and of the cap
C14_InfoReadOnly ==
    AfterStep =>
        /\ ret.info = [step         |-> n_step,
                       target_width |-> <<3, 20>>,
                       target_x     |-> external_state.target[1],
                       target_y     |-> external_state.target[2],
                       fixate_x     |-> ret.cycle.response[1],
                       fixate_y     |-> ret.cycle.response[2]]
        /\ n_step = history.calls
        /\ external_state = [fixation |-> ret.cycle.response,
                             target   |-> history.at_reset.target,
                             width    |-> history.at_reset.width]
        /\ internal_state.action = ret.action
        /\ ret.obs = _get_obs(internal_state)
        /\ ret.reward = _get_reward(internal_state)
        /\ ret.done = (ret.cycle.done \/ n_step > max_steps)

\* a second step that moved the fixation to a new place off the target, whose
\* info reports the new place
C14_Witness ==
    /\ AfterStep
    /\ n_step = 2
    /\ ret.info.step = 2
    /\ <<ret.info.fixate_x, ret.info.fixate_y>> = Pt(1, -1)
    /\ <<ret.info.target_x, ret.info.target_y>> = Pt(0, 1)
    /\ external_state.fixation = Pt(1, -1)

\* C16: after reset and after every step the internal fixation is (-1,-1),
\* wherever the gaze is: the reward is the one measured from that corner to
\* the belief, and the motor noise has the std of a move from that corner, so
\* an action at the corner is executed without noise from any gaze position
C16_InternalFixationStaysAtCorner ==
    is_reset =>
        /\ internal_state.fixation = Pt(-1, -1)
        /\ AfterStep =>
              /\ ret.reward =
                    (LET distance == get_distance(Pt(-1, -1), internal_state.target)
                     IN  IF RootLess(distance, RDiv(internal_state.width, R(2)))
                         THEN [neg |-> Sqrt(R(0))]
                         ELSE [neg |-> distance])
              /\ ret.action = Pt(-1, -1) => ret.cycle.response = Pt(-1, -1)

\* a second step with the motor noise on and the action at the corner: the
\* gaze lands on the corner exactly, and the belief has moved
C16_Witness ==
    /\ AfterStep
    /\ n_step = 2
    /\ oculamotor_noise_weight # R(0)
    /\ ret.action = Pt(-1, -1)
    /\ internal_state.fixation = Pt(-1, -1)
    /\ ret.info.fixate_x = R(-1)
    /\ internal_state.target # Pt(0, 0)

\* C17: a step that leaves n_step <= max_steps returns done=True only if the
\* goal condition holds on the fixation of that step; the step that leaves
\* n_step = max_steps + 1 returns done=True whether it holds or not
C17_NoPrematureTruncation ==
    AfterStep =>
        /\ (n_step <= max_steps /\ ret.done) => (GoalReached /\ ret.cycle.done)
        /\ (n_step = max_steps + 1) => ret.done

\* the step that brings n_step to max_steps, off the target, returned
\* done=False
C17_Witness ==
    /\ AfterStep
    /\ n_step = max_steps
    /\ ~GoalReached
    /\ ~ret.done

\* C18: after reset and after every step, for any action and any motor noise
\* draw, both coordinates of the external fixation are within [-1, 1]: the
\* response handed to external_env is clipped per axis
C18_ExternalFixationInBox ==
    is_reset =>
        /\ InBox(external_state.fixation)
        /\ AfterStep => InBox(ret.cycle.response)

\* a step with an action outside the box, its response clipped on both axes
C18_Witness ==
    /\ AfterStep
    /\ ret.action = Pt(2, -2)
    /\ external_state.fixation = Pt(1, -1)

\* C19: with a positive stimulus noise weight (and the width 0.15), a step
\* issued while no earlier step of the episode has returned done=True never
\* fuses a stimulus_std of 0 with a belief std of 0: a stimulus_std of 0 means
\* the fixation is on the target, which makes that same step return
\* done=True, so the target_std it leaves is a number
C19_NoDegenerateFusion ==
    (AfterStep /\ (~history.was_done) /\ RLess(R(0), stimulus_noise_weight)
       /\ RLess(R(0), external_state.width)) =>
        /\ ~(ret.cycle.stimulus_std = Sqrt(R(0)) /\ ret.cycle.belief_std = Sqrt(R(0)))
        /\ ret.cycle.stimulus_std = Sqrt(R(0)) => (GoalReached /\ ret.done)
        /\ ~IsNaN(internal_state.target_std.sqrt)
        /\ ~IsNaN(ret.obs[1]) /\ ~IsNaN(ret.obs[2])

\* a second step, the first not done, that put the fixation on the target:
\* the stimulus_std is 0, the belief std it met is not, the target_std left
\* is 0 and the step returned done=True
C19_Witness ==
    /\ AfterStep
    /\ ~history.was_done
    /\ n_step = 2
    /\ stimulus_noise_weight = <<9, 100>>
    /\ ret.cycle.stimulus_std = Sqrt(R(0))
    /\ ret.cycle.belief_std # Sqrt(R(0))
    /\ internal_state.target_std = Sqrt(R(0))
    /\ ret.done

\* what the next call on the instance inst would return with the generator
\* at `position`, for a reset and for a step with each action (no step result
\* before the first reset)
Results(inst, position) ==
    [reset |-> {r.obs : r \in SeededReset(position)},
     step  |-> [action \in TwoActions |->
                  IF inst.is_reset
                  THEN {<<r.obs, r.reward, r.done, r.info>> :
                          r \in SeededStep(inst, position, action)}
                  ELSE {}]]

\* C15: a reset or step on one of two instances leaves the other's n_step,
\* external state and internal state as they were, and leaves what the
\* other's next call would return as it was
C15_InstancesIndependent ==
    [][\A i \in {1, 2} :
          (ret'.call \in {"reset", "step"} /\ ret'.instance = i) =>
              /\ Inst(3 - i)' = Inst(3 - i)
              /\ Results(Inst(3 - i), np_random') = Results(Inst(3 - i), np_random)]_vars

=============================================================================
